---- MODULE Spec2Model ----
(***************************************************************************)
(* zkDB: an authenticated key-value store.  The guest program              *)
(* (crates/zkdb-merkle/src/main.rs) is a state-transition function over a  *)
(* serialized Merkle state; the Database facade (crates/zkdb-lib/src/      *)
(* lib.rs) couples a blob Store with that program through the SP1          *)
(* executor.                                                                *)
(*                                                                         *)
(* Data is modelled by constructors, one record field per encoding, so     *)
(* that an encoded value never equals the value it encodes:                *)
(*   texts  : [str |-> s]  a plain string                                  *)
(*            [hex |-> d]  hex::encode of the digest d                     *)
(*            [b64 |-> b]  base64::encode of the bytes b                   *)
(*            [json |-> v] serde_json text of the JSON value v             *)
(*   bytes  : [utf8 |-> t] the UTF-8 bytes of the text t                   *)
(*            [sha256 |-> b] the 32-byte digest of the bytes b             *)
(*            [cat |-> <<l, r>>] two digests concatenated                  *)
(*   absent : [none |-> TRUE]  (Option::None, JSON null)                   *)
(***************************************************************************)
EXTENDS Integers, Sequences, FiniteSets, TLC

\* ------------------------------------------------------------------ bounds
\* At most MaxLeaves inserts are applied to the threaded state.
MaxLeaves == 4

\* Keys in the order of Rust's String Ord (the order a BTreeMap iterates in).
KeyOrder == <<"alice", "bob">>

Keys == {KeyOrder[i] : i \in 1..Len(KeyOrder)}

KeyRank(k) == CHOOSE i \in 1..Len(KeyOrder) : KeyOrder[i] = k

\* The raw values of the model.
ValueNames == {"v1", "v2"}

None == [none |-> TRUE]

IsNone(x) == "none" \in DOMAIN x

\* ------------------------------------------------------------ encodings
Str(s) == [str |-> s]

AsBytes(text) == [utf8 |-> text]

IsUtf8(bytes) == "utf8" \in DOMAIN bytes

Sha256(bytes) == [sha256 |-> bytes]

HexEncode(digest) == [hex |-> digest]

Base64Encode(bytes) == [b64 |-> bytes]

IsBase64(text) == "b64" \in DOMAIN text

Base64Decode(text) == text.b64

JsonToString(v) == [json |-> v]

IsJsonText(text) == "json" \in DOMAIN text

JsonFromStr(text) == text.json

\* Results of the guest's Rust functions: Result::Ok, Result::Err, or a panic.
Ok(v) == [ok |-> v]

Err(e) == [err |-> e]

Panic(msg) == [panic |-> msg]

IsOk(r) == "ok" \in DOMAIN r

IsErr(r) == "err" \in DOMAIN r

IsPanic(r) == "panic" \in DOMAIN r

\* ----------------------------------------------------------- MerkleState
\* key_indices is a BTreeMap<String, usize>: a function from the keys present
\* to 0-based leaf indices; leaves[i + 1] is the leaf with index i.
EmptyMap == << >>

MerkleState_new == [leaves |-> << >>, key_indices |-> EmptyMap]

BTreeInsert(m, k, v) == [x \in (DOMAIN m) \cup {k} |-> IF x = k THEN v ELSE m[x]]

RECURSIVE EntriesFrom(_, _)
EntriesFrom(m, i) ==
    IF i > Len(KeyOrder) THEN << >>
    ELSE (IF KeyOrder[i] \in DOMAIN m
          THEN << <<KeyOrder[i], m[KeyOrder[i]]>> >>
          ELSE << >>) \o EntriesFrom(m, i + 1)

\* Mutant: a map that iterates in insertion order (ascending leaf index).
BTreeIter_InsertionOrder(m) ==
    [i \in 1..Cardinality(DOMAIN m) |->
        LET k == CHOOSE x \in DOMAIN m :
                     Cardinality({y \in DOMAIN m : m[y] < m[x]}) = i - 1
        IN  <<k, m[k]>>]

\* The entries of the map in the order its iterator yields them (ascending key).
BTreeIter(m) == EntriesFrom(m, 1)

RECURSIVE MapFromEntries(_)
MapFromEntries(es) ==
    IF es = << >> THEN EmptyMap
    ELSE LET e == es[Len(es)]
         IN  BTreeInsert(MapFromEntries(SubSeq(es, 1, Len(es) - 1)), e[1], e[2])

\* serde_json::to_vec(&merkle_state): the struct as a JSON object, the map
\* written entry by entry in iteration order.
SerializeState(ms) ==
    AsBytes(JsonToString([leaves |-> ms.leaves,
                          key_indices |-> BTreeIter(ms.key_indices)]))

CanDeserializeState(bytes) ==
    /\ IsUtf8(bytes)
    /\ IsJsonText(bytes.utf8)
    /\ {"leaves", "key_indices"} \subseteq DOMAIN JsonFromStr(bytes.utf8)

DeserializeState(bytes) ==
    LET v == JsonFromStr(bytes.utf8)
    IN  [leaves |-> v.leaves, key_indices |-> MapFromEntries(v.key_indices)]

\* ------------------------------------------------------------ rs_merkle
\* Mutant: the two children are hashed as an unordered pair.
ConcatAndHash_Unordered(l, r) == Sha256([pair |-> {l, r}])

\* Sha256::concat_and_hash with a right sibling.
ConcatAndHash(l, r) == Sha256([cat |-> <<l, r>>])

\* Mutant: a lone last node is hashed with a copy of itself.
NextLayer_DuplicateOdd(layer) ==
    [i \in 1..((Len(layer) + 1) \div 2) |->
        IF 2 * i <= Len(layer)
        THEN ConcatAndHash(layer[2 * i - 1], layer[2 * i])
        ELSE ConcatAndHash(layer[2 * i - 1], layer[2 * i - 1])]

\* One level up: adjacent pairs are hashed, a lone last node is carried up
\* unchanged.
NextLayer(layer) ==
    [i \in 1..((Len(layer) + 1) \div 2) |->
        IF 2 * i <= Len(layer)
        THEN ConcatAndHash(layer[2 * i - 1], layer[2 * i])
        ELSE layer[2 * i - 1]]

\* Mutant: a single remaining node is hashed once more instead of returned.
RECURSIVE LayerRoot_HashSingle(_)
LayerRoot_HashSingle(layer) ==
    IF Len(layer) = 1 THEN ConcatAndHash(layer[1], layer[1])
    ELSE LayerRoot_HashSingle(NextLayer(layer))

RECURSIVE LayerRoot(_)
LayerRoot(layer) ==
    IF Len(layer) = 1 THEN layer[1] ELSE LayerRoot(NextLayer(layer))

\* MerkleTree::from_leaves(..).root(): None for the empty tree.
MerkleRoot(leaves) == IF leaves = << >> THEN None ELSE LayerRoot(leaves)

RECURSIVE LayerProof(_, _)
LayerProof(layer, index) ==
    IF Len(layer) <= 1 THEN << >>
    ELSE LET sibling == IF index % 2 = 0 THEN index + 1 ELSE index - 1
         IN  (IF sibling < Len(layer) THEN <<layer[sibling + 1]>> ELSE << >>)
             \o LayerProof(NextLayer(layer), index \div 2)

\* MerkleTree::proof(&[index]).proof_hashes(): the sibling hashes bottom-up;
\* a level where the node has no sibling contributes nothing.
MerkleProof(leaves, index) == LayerProof(leaves, index)

\* ProofWrapper's Serialize: the proof hashes as a JSON array of hex strings.
ProofWrapper(proof) == [i \in 1..Len(proof) |-> HexEncode(proof[i])]

\* Mutant: a key already present keeps its first leaf index.
insert_KeepFirst(state, key, value) ==
    LET leaf == Sha256(AsBytes(value))
        ls   == Append(state.leaves, leaf)
    IN  [state  |-> [leaves |-> ls,
                     key_indices |-> IF key \in DOMAIN state.key_indices
                                     THEN state.key_indices
                                     ELSE BTreeInsert(state.key_indices, key, Len(ls) - 1)],
         result |-> Ok([status |-> "inserted"])]

\* Mutant: the index recorded is the length after the push.
insert_IndexIsLen(state, key, value) ==
    LET leaf == Sha256(AsBytes(value))
        ls   == Append(state.leaves, leaf)
    IN  [state  |-> [leaves |-> ls,
                     key_indices |-> BTreeInsert(state.key_indices, key, Len(ls))],
         result |-> Ok([status |-> "inserted"])]

\* Mutant: the new leaf is put in front of the others.
insert_Prepend(state, key, value) ==
    LET leaf == Sha256(AsBytes(value))
        ls   == <<leaf>> \o state.leaves
    IN  [state  |-> [leaves |-> ls,
                     key_indices |-> BTreeInsert(state.key_indices, key, Len(ls) - 1)],
         result |-> Ok([status |-> "inserted"])]

\* ------------------------------------------------------- guest commands
\* Each returns [state |-> the MerkleState afterwards, result |-> Ok/Err/Panic].
\* Mutant: a key that is already in the map is refused.
insert_RejectDuplicate(state, key, value) ==
    IF key \in DOMAIN state.key_indices
    THEN [state |-> state, result |-> Err("Key exists")]
    ELSE [state  |-> [leaves |-> Append(state.leaves, Sha256(AsBytes(value))),
                      key_indices |-> BTreeInsert(state.key_indices, key,
                                                  Len(state.leaves))],
          result |-> Ok([status |-> "inserted"])]

insert(state, key, value) ==
    LET leaf   == Sha256(AsBytes(value))
        leaves == Append(state.leaves, leaf)
        index  == Len(leaves) - 1
    IN  [state  |-> [leaves |-> leaves,
                     key_indices |-> BTreeInsert(state.key_indices, key, index)],
         result |-> Ok([status |-> "inserted"])]

\* Mutant: a miss leaves a default entry for the key in the map.
query_InsertsDefault(state, key) ==
    IF key \in DOMAIN state.key_indices
    THEN [state  |-> state,
          result |-> Ok([value_hash |-> HexEncode(state.leaves[state.key_indices[key] + 1])])]
    ELSE [state  |-> [state EXCEPT !.key_indices = BTreeInsert(@, key, 0)],
          result |-> Err("Key not found")]

query(state, key) ==
    IF key \in DOMAIN state.key_indices
    THEN LET index == state.key_indices[key]
         IN  IF index >= Len(state.leaves)
             THEN [state |-> state, result |-> Panic("index out of bounds")]
             ELSE [state  |-> state,
                   result |-> Ok([value_hash |-> HexEncode(state.leaves[index + 1])])]
    ELSE [state |-> state, result |-> Err("Key not found")]

\* Mutant: a key that is not in the map is proved as leaf 0.
prove_DefaultIndex(state, key) ==
    LET index == IF key \in DOMAIN state.key_indices THEN state.key_indices[key] ELSE 0
        root  == MerkleRoot(state.leaves)
    IN  IF IsNone(root) THEN [state |-> state, result |-> Err("Tree is empty")]
        ELSE [state  |-> state,
              result |-> Ok([root    |-> HexEncode(root),
                             proof   |-> Base64Encode(AsBytes(JsonToString(
                                           ProofWrapper(MerkleProof(state.leaves, index))))),
                             indices |-> <<index>>,
                             leaf    |-> HexEncode(state.leaves[index + 1])])]

\* Mutant: the tree is built from the leaves up to the proved one only.
prove_PrefixTree(state, key) ==
    IF key \in DOMAIN state.key_indices
    THEN LET index  == state.key_indices[key]
             prefix == SubSeq(state.leaves, 1, index + 1)
         IN  [state  |-> state,
              result |-> Ok([root    |-> HexEncode(MerkleRoot(prefix)),
                             proof   |-> Base64Encode(AsBytes(JsonToString(
                                           ProofWrapper(MerkleProof(prefix, index))))),
                             indices |-> <<index>>,
                             leaf    |-> HexEncode(state.leaves[index + 1])])]
    ELSE [state |-> state, result |-> Err("Key not found")]

\* Mutant: the tree is built from the leaves the map still points at, the
\* superseded ones left out.
prove_LiveLeaves(state, key) ==
    IF key \in DOMAIN state.key_indices
    THEN LET idxs  == {state.key_indices[k] : k \in DOMAIN state.key_indices}
             rank(i) == Cardinality({j \in idxs : j <= i})
             live  == [n \in 1..Cardinality(idxs) |->
                          state.leaves[(CHOOSE i \in idxs : rank(i) = n) + 1]]
             index == rank(state.key_indices[key]) - 1
         IN  [state  |-> state,
              result |-> Ok([root    |-> HexEncode(MerkleRoot(live)),
                             proof   |-> Base64Encode(AsBytes(JsonToString(
                                           ProofWrapper(MerkleProof(live, index))))),
                             indices |-> <<index>>,
                             leaf    |-> HexEncode(live[index + 1])])]
    ELSE [state |-> state, result |-> Err("Key not found")]

prove(state, key) ==
    IF key \in DOMAIN state.key_indices
    THEN LET index == state.key_indices[key]
             root  == MerkleRoot(state.leaves)
         IN  IF IsNone(root)
             THEN [state |-> state, result |-> Err("Tree is empty")]
             ELSE IF index >= Len(state.leaves)
             THEN [state |-> state, result |-> Panic("index out of bounds")]
             ELSE [state  |-> state,
                   result |-> Ok([root    |-> HexEncode(root),
                                  proof   |-> Base64Encode(AsBytes(JsonToString(
                                                ProofWrapper(MerkleProof(state.leaves, index))))),
                                  indices |-> <<index>>,
                                  leaf    |-> HexEncode(state.leaves[index + 1])])]
    ELSE [state |-> state, result |-> Err("Key not found")]

\* ------------------------------------------------------------ SP1 stdin
\* SP1Stdin::write(&T) appends one bincode buffer.  A String and a Vec<u8>
\* have the same bincode layout: a u64 length, then the bytes.
BincodeString(text) == [lenprefixed |-> AsBytes(text)]

BincodeVec(bytes) == [lenprefixed |-> bytes]

\* io::read::<String>() on a buffer: the bytes after the length, as UTF-8.
CanReadString(buf) == "lenprefixed" \in DOMAIN buf /\ IsUtf8(buf.lenprefixed)

ReadString(buf) == buf.lenprefixed.utf8

\* ----------------------------------------------------- guest entry point
\* Mutant: a command tag that is not known aborts the program.
Dispatch_UnknownPanics(merkle_state, command, params) ==
    CASE command = "insert" -> insert(merkle_state, params.key, params.value)
      [] command = "query" -> query(merkle_state, params.key)
      [] command = "prove" -> prove(merkle_state, params.key)
      [] OTHER -> [state |-> merkle_state, result |-> Panic("Unknown command")]

Dispatch(merkle_state, command, params) ==
    LET unchanged(r) == [state |-> merkle_state, result |-> r]
    IN  CASE command = "insert" ->
               IF "key" \notin DOMAIN params THEN unchanged(Panic("Missing key"))
               ELSE IF "value" \notin DOMAIN params THEN unchanged(Panic("Missing value"))
               ELSE insert(merkle_state, params.key, params.value)
          [] command = "query" ->
               IF "key" \notin DOMAIN params THEN unchanged(Panic("Missing key"))
               ELSE query(merkle_state, params.key)
          [] command = "prove" ->
               IF "key" \notin DOMAIN params THEN unchanged(Panic("Missing key"))
               ELSE prove(merkle_state, params.key)
          [] OTHER -> unchanged(Err("Unknown command"))

\* Value::as_str is Some: the JSON value is a string.
IsJsonString(v) == DOMAIN v \cap {"str", "hex", "b64", "json"} # {}

\* Mutant: a state that does not decode is replaced by the fresh state.
DecodeState_DefaultOnError(state_data) ==
    IF ~IsJsonString(state_data) \/ ~IsBase64(state_data)
       \/ ~CanDeserializeState(Base64Decode(state_data))
    THEN Ok(MerkleState_new)
    ELSE Ok(DeserializeState(Base64Decode(state_data)))

\* "Deserialize state or create a new one": Ok(MerkleState), or the panic of
\* the expect that fails.
DecodeState(state_data) ==
    IF ~IsJsonString(state_data) THEN Ok(MerkleState_new)
    ELSE IF ~IsBase64(state_data) THEN Panic("Failed to decode state")
    ELSE IF ~CanDeserializeState(Base64Decode(state_data))
    THEN Panic("Failed to deserialize state")
    ELSE Ok(DeserializeState(Base64Decode(state_data)))

\* main(): Panic(msg) when the program aborts, else [commit |-> bytes], the
\* public output it commits.
GuestMain(stdin) ==
    IF stdin = << >> \/ ~CanReadString(stdin[1]) THEN Panic("deserialization failed")
    ELSE LET command_input == ReadString(stdin[1])
    IN  IF ~IsJsonText(command_input) THEN Panic("Invalid JSON input")
    ELSE LET input == JsonFromStr(command_input)
    IN  IF "command" \notin DOMAIN input THEN Panic("Missing command")
    ELSE LET command    == input.command
             params     == IF "params" \in DOMAIN input THEN input.params ELSE None
             state_data == IF "state" \in DOMAIN input THEN input.state ELSE None
             decoded    == DecodeState(state_data)
    IN  IF IsPanic(decoded) THEN decoded
    ELSE LET merkle_state == decoded.ok
             done         == Dispatch(merkle_state, command, params)
             result       == done.result
             encoded_state == Base64Encode(SerializeState(done.state))
    IN  IF IsPanic(result) THEN result
        ELSE [commit |-> AsBytes(JsonToString(
                 [result |-> IF IsOk(result) THEN result.ok ELSE [error |-> result.err],
                  state  |-> encoded_state]))]

\* -------------------------------------------------------------- facade
\* The empty Vec<u8>.
EmptyBytes == AsBytes(Str(""))

\* The blobs callers store.
RawValues == {AsBytes(Str(n)) : n \in ValueNames}

\* zkdb_core::Command
CommandInsert(key, value) == [tag |-> "Insert", key |-> key, value |-> value]

CommandQuery(key) == [tag |-> "Query", key |-> key]

CommandProve(key) == [tag |-> "Prove", key |-> key]

BincodeCommand(command) == [enum |-> command]

\* DatabaseError, as variant and payload.
QueryExecutionFailed(msg) == [variant |-> "QueryExecutionFailed", inner |-> msg]

ProofGenerationFailed(msg) == [variant |-> "ProofGenerationFailed", inner |-> msg]

ProofVerificationFailed(msg) == [variant |-> "ProofVerificationFailed", inner |-> msg]

StoreErr(kind) == [variant |-> "Store", inner |-> kind]

\* serde_json's Index: a missing field reads as Null.
JsonIndex(v, field) == IF field \in DOMAIN v THEN v[field] ELSE None

\* SP1Executor::parse_output on the public values of a run that completed.
\* new_state must be a JSON array of numbers, here [bytearray |-> bytes].
parse_output(public_values, proof, verify_ok) ==
    IF ~IsUtf8(public_values)
    THEN Err(QueryExecutionFailed("Failed to parse output as UTF-8"))
    ELSE IF ~IsJsonText(public_values.utf8)
    THEN Err(QueryExecutionFailed("Failed to parse output as JSON"))
    ELSE LET output_json == JsonFromStr(public_values.utf8)
             data        == JsonIndex(output_json, "data")
             new_state   == JsonIndex(output_json, "new_state")
    IN  IF "bytearray" \notin DOMAIN new_state
        THEN Panic("called Option::unwrap() on a None value")
        ELSE IF ~IsNone(proof) /\ ~verify_ok
        THEN Err(ProofVerificationFailed("verify"))
        ELSE Ok([data |-> data, new_state |-> new_state.bytearray, sp1_proof |-> proof])

\* SP1Executor::execute_query.  The state bytes and the Command are written
\* as two stdin buffers; prover_ok and verify_ok are the proving engine's
\* answers when the program itself completes.
execute_query(state, command, generate_proof, prover_ok, verify_ok) ==
    LET stdin == <<BincodeVec(state), BincodeCommand(command)>>
        run   == GuestMain(stdin)
    IN  IF generate_proof
        THEN IF IsPanic(run) \/ ~prover_ok
             THEN Err(ProofGenerationFailed("prove"))
             ELSE parse_output(run.commit, [proof_data |-> run.commit, vk |-> "vk"],
                               verify_ok)
        ELSE IF IsPanic(run)
             THEN Err(QueryExecutionFailed("Failed to execute query without proof"))
             ELSE parse_output(run.commit, None, verify_ok)

\* Store::get on the blob map.
store_get(blobs, key) ==
    IF IsNone(blobs[key]) THEN Err(StoreErr("NotFound")) ELSE Ok(blobs[key])

\* The error Database::get returns when the blob's hash is not the indexed one.
HashMismatch == StoreErr("Storage: Value hash mismatch - data may be corrupted")

\* Database::get once the executor has answered: `result` is what
\* execute_query returned (the ? operator passes an Err on).
get_result(result, blobs, key) ==
    IF ~IsOk(result) THEN result
    ELSE IF "error" \in DOMAIN result.ok.data
    THEN Err(QueryExecutionFailed("Query execution failed"))
    ELSE IF "value" \notin DOMAIN result.ok.data
    THEN Err(QueryExecutionFailed("Invalid result format"))
    ELSE LET merkle_hash == result.ok.data.value
             value       == store_get(blobs, key)
    IN  IF ~IsOk(value) THEN value
        ELSE IF HexEncode(Sha256(value.ok)) # merkle_hash
        THEN Err(HashMismatch)
        ELSE Ok(value.ok)

\* Database::get: the value returned for `key`.
Database_get(state, blobs, key, generate_proof, prover_ok, verify_ok) ==
    get_result(execute_query(state, CommandQuery(key), generate_proof,
                             prover_ok, verify_ok),
               blobs, key)

\* Mutant: a get that fails resets the state buffer.
Database_get_effect_ResetOnError(state, blobs, key, generate_proof, prover_ok, verify_ok) ==
    LET result == Database_get(state, blobs, key, generate_proof, prover_ok, verify_ok)
    IN  [ret |-> result, state |-> IF IsOk(result) THEN state ELSE EmptyBytes,
         store |-> blobs]

\* Database::get with what it leaves behind: it takes &self and only reads
\* the Store, so the state buffer and the blobs are the ones it was given.
Database_get_effect(state, blobs, key, generate_proof, prover_ok, verify_ok) ==
    [ret   |-> Database_get(state, blobs, key, generate_proof, prover_ok, verify_ok),
     state |-> state,
     store |-> blobs]

\* Mutant: the index transition runs before the Store is written.
Database_put_EngineFirst(state, blobs, key, value, generate_proof, store_ok, prover_ok, verify_ok) ==
    LET result == execute_query(state, CommandInsert(key, HexEncode(Sha256(value))),
                                generate_proof, prover_ok, verify_ok)
    IN  IF ~IsOk(result)
        THEN [ret |-> result, state |-> state, store |-> blobs, engine_invoked |-> TRUE]
        ELSE IF ~store_ok
        THEN [ret |-> Err(StoreErr("Io")), state |-> state, store |-> blobs,
              engine_invoked |-> TRUE]
        ELSE [ret |-> Ok(None), state |-> result.ok.new_state,
              store |-> [blobs EXCEPT ![key] = value], engine_invoked |-> TRUE]

\* Mutant: a failed index transition restores the Store.
Database_put_Rollback(state, blobs, key, value, generate_proof, store_ok, prover_ok, verify_ok) ==
    LET result == execute_query(state, CommandInsert(key, HexEncode(Sha256(value))),
                                generate_proof, prover_ok, verify_ok)
    IN  IF ~store_ok
        THEN [ret |-> Err(StoreErr("Io")), state |-> state, store |-> blobs,
              engine_invoked |-> FALSE]
        ELSE IF ~IsOk(result)
        THEN [ret |-> result, state |-> state, store |-> blobs, engine_invoked |-> TRUE]
        ELSE [ret |-> Ok(None), state |-> result.ok.new_state,
              store |-> [blobs EXCEPT ![key] = value], engine_invoked |-> TRUE]

\* Database::put: what it returns, the state buffer and the Store it leaves,
\* and whether the executor was called.  store_ok is whether the Store's
\* write succeeds.
Database_put(state, blobs, key, value, generate_proof, store_ok, prover_ok, verify_ok) ==
    IF ~store_ok
    THEN [ret |-> Err(StoreErr("Io")), state |-> state, store |-> blobs,
          engine_invoked |-> FALSE]
    ELSE LET written == [blobs EXCEPT ![key] = value]
             result  == execute_query(state, CommandInsert(key, HexEncode(Sha256(value))),
                                      generate_proof, prover_ok, verify_ok)
         IN  IF ~IsOk(result)
             THEN [ret |-> result, state |-> state, store |-> written,
                   engine_invoked |-> TRUE]
             ELSE [ret |-> Ok(None), state |-> result.ok.new_state, store |-> written,
                   engine_invoked |-> TRUE]

\* Mutant: the state buffer is replaced whatever the executor returned.
Database_execute_query_ClearOnError(state, command, generate_proof, prover_ok, verify_ok) ==
    LET result == execute_query(state, command, generate_proof, prover_ok, verify_ok)
    IN  [ret |-> result,
         state |-> IF IsOk(result) THEN result.ok.new_state ELSE EmptyBytes]

\* Database::execute_query: what it returns and the state buffer it leaves.
Database_execute_query(state, command, generate_proof, prover_ok, verify_ok) ==
    LET result == execute_query(state, command, generate_proof, prover_ok, verify_ok)
    IN  [ret |-> result,
         state |-> IF IsOk(result) THEN result.ok.new_state ELSE state]

\* ---------------------------------------------------------------- state
VARIABLES
    state_file,   \* the driver's threaded state: None, or the base64 state text
    input,        \* the command JSON of the last transition (None before the first)
    output,       \* its outcome: the output JSON {result, state}, or Panic(msg)
    history,      \* the <<key, value>> of every completed insert, in order
    db_state,     \* Database.state: the in-memory state buffer (bytes)
    store,        \* the Store: for each key its blob, or None
    call,         \* the last Database call (None before the first)
    ret,          \* what it returned: Ok(..), Err(DatabaseError) or Panic(msg)
    put_value,    \* for each key, the value of the last put that wrote the Store
    instances,    \* two Databases over disjoint Stores: for each its state buffer and blobs
    alone,        \* for each of the two, what its own calls give when run without the other
    backends,     \* a FileStore and a RocksStore given the same calls, with their last results
    files,        \* a FileStore's directory tree, and the blobs its calls returned Ok for
    drivers       \* the driver processes at work on the state files, with their positions

engine_vars == <<state_file, input, output, history>>

db_vars == <<db_state, store, call, ret, put_value>>

peer_vars == <<instances, alone, backends, files, drivers>>

vars == <<engine_vars, db_vars, peer_vars>>

Instances == {1, 2}

\* Keys of a FileStore, one of them a path below another, and the path
\* components base_path.join(key) puts below the base directory.
FileKeys == {"a", "a/b", "c"}

key_to_path(key) ==
    CASE key = "a" -> <<"a">>
      [] key = "a/b" -> <<"a", "b">>
      [] key = "c" -> <<"c">>

FilePaths == {key_to_path(k) : k \in FileKeys}

\* The merkle driver processes, and one before it has read the state file.
Drivers == {1, 2}

DriverIdle == [pc |-> "idle", last |-> "none"]

\* The drivers before their first invocation, on state files holding `text`
\* (merkle driver) and the buffer `bytes` (library CLI).
DriversInit(text, bytes) ==
    [procs    |-> [d \in Drivers |-> DriverIdle],
     threaded |-> text,
     overlap  |-> FALSE,
     runs     |-> 0,
     cli_file |-> BincodeVec(bytes),
     cli_ret  |-> None]

\* Two Databases created with no state over empty Stores, two empty backends
\* and an empty FileStore directory.
StoresInit ==
    /\ instances = [i \in Instances |->
                       [state |-> EmptyBytes, store |-> [k \in Keys |-> None]]]
    /\ alone = [i \in Instances |->
                   [state |-> EmptyBytes, store |-> [k \in Keys |-> None], ret |-> None]]
    /\ backends = [file |-> [k \in Keys |-> None], rocks |-> [k \in Keys |-> None],
                   file_ret |-> None, rocks_ret |-> None]
    /\ files = [fs |-> [p \in FilePaths |-> None], expected |-> [k \in FileKeys |-> None]]

PeerInit ==
    /\ StoresInit
    /\ drivers = DriversInit(None, EmptyBytes)

\* The value strings insert commands carry: a raw value, as the merkle driver
\* sends it, or the hex SHA-256 of a raw value, as Database::put and the
\* library tests send it.
ValueHash(name) == HexEncode(Sha256(AsBytes(Str(name))))

InsertValues == {Str("v1"), ValueHash("v1")}

\* The MerkleState a state text decodes to (None: the fresh state).
Decoded(state_text) ==
    IF IsNone(state_text) THEN MerkleState_new
    ELSE DeserializeState(Base64Decode(state_text))

leaves == Decoded(state_file).leaves

key_indices == Decoded(state_file).key_indices

InsertJson(key, value, state) ==
    [command |-> "insert", params |-> [key |-> key, value |-> value], state |-> state]

QueryJson(key, state) ==
    [command |-> "query", params |-> [key |-> key], state |-> state]

ProveJson(key, state) ==
    [command |-> "prove", params |-> [key |-> key], state |-> state]

\* A command JSON whose tag is none of insert, query, prove.
UnknownJson(state) == [command |-> "delete", state |-> state]

\* One run of the program on a command JSON, as the merkle driver and the
\* integration test make it: the JSON text is the single stdin buffer.
Execute(command_json) == GuestMain(<<BincodeString(JsonToString(command_json))>>)

\* The output JSON of a run that completed.
OutputJson(run) == JsonFromStr(run.commit.utf8)

Transition(command_json) ==
    LET run == Execute(command_json)
    IN  /\ input' = command_json
        /\ IF IsPanic(run)
           THEN output' = run /\ UNCHANGED state_file
           ELSE /\ output' = OutputJson(run)
                /\ state_file' = OutputJson(run).state

Init ==
    /\ state_file = None
    /\ input = None
    /\ output = None
    /\ history = << >>
    /\ db_state = EmptyBytes
    /\ store = [k \in Keys |-> None]
    /\ call = None
    /\ ret = None
    /\ put_value = [k \in Keys |-> None]
    /\ PeerInit

Insert(key, value) ==
    /\ Len(leaves) < MaxLeaves
    /\ Transition(InsertJson(key, value, state_file))
    /\ history' = IF IsPanic(output') THEN history
                  ELSE Append(history, <<key, value>>)
    /\ UNCHANGED <<db_vars, peer_vars>>

Query(key) ==
    /\ Transition(QueryJson(key, state_file))
    /\ UNCHANGED <<history, db_vars, peer_vars>>

Prove(key) ==
    /\ Transition(ProveJson(key, state_file))
    /\ UNCHANGED <<history, db_vars, peer_vars>>

Unknown ==
    /\ Transition(UnknownJson(state_file))
    /\ UNCHANGED <<history, db_vars, peer_vars>>

Next ==
    \/ \E key \in Keys, value \in InsertValues : Insert(key, value)
    \/ \E key \in Keys : Query(key)
    \/ \E key \in Keys : Prove(key)
    \/ Unknown

Spec == Init /\ [][Next]_vars

\* ------------------------------------------------------- facade actions
\* The state buffers a caller installs with Database::new or set_state: the
\* empty buffer, the bytes of a state text the merkle driver persisted, the
\* bytes of a serialized MerkleState, and the bytes of a command JSON text.
\* ------------------------------------------ transitions on supplied states
\* The guest run on a state text its caller supplies, decodable or not.
MaxSuppliedLeaves == 2

SuppliedLeafHashes == {Sha256(AsBytes(Str("v1"))), Sha256(AsBytes(ValueHash("v1")))}

SuppliedMerkleStates ==
    {[leaves |-> ls, key_indices |-> m] :
        ls \in UNION {[1..n -> SuppliedLeafHashes] : n \in 0..MaxSuppliedLeaves},
        m  \in UNION {[D -> 0..MaxSuppliedLeaves] : D \in SUBSET Keys}}

\* State strings that do not decode: not base64; the empty string; base64 of
\* bytes that are not JSON; base64 of JSON without the key_indices field.
CorruptTexts ==
    { Str("not base64!"),
      Base64Encode(EmptyBytes),
      Base64Encode(AsBytes(Str("garbage"))),
      Base64Encode(AsBytes(JsonToString([leaves |-> << >>]))) }

\* A "state" field that is not a JSON string.
NotAString == [number |-> 0]

\* The state strings that decode to a MerkleState.
DecodableTexts == {Base64Encode(SerializeState(ms)) : ms \in SuppliedMerkleStates}

SuppliedTexts == {None, NotAString} \cup CorruptTexts \cup DecodableTexts

\* One run of the guest on the supplied state text; the text is not replaced.
Run(command_json) ==
    LET run == Execute(command_json)
    IN  /\ input' = command_json
        /\ output' = IF IsPanic(run) THEN run ELSE OutputJson(run)
        /\ UNCHANGED state_file

InitSupplied ==
    /\ state_file \in SuppliedTexts
    /\ input = None
    /\ output = None
    /\ history = << >>
    /\ db_state = EmptyBytes
    /\ store = [k \in Keys |-> None]
    /\ call = None
    /\ ret = None
    /\ put_value = [k \in Keys |-> None]
    /\ PeerInit

SuppliedInsert(key, value) ==
    /\ Run(InsertJson(key, value, state_file))
    /\ UNCHANGED <<history, db_vars, peer_vars>>

SuppliedQuery(key) ==
    /\ Run(QueryJson(key, state_file))
    /\ UNCHANGED <<history, db_vars, peer_vars>>

SuppliedProve(key) ==
    /\ Run(ProveJson(key, state_file))
    /\ UNCHANGED <<history, db_vars, peer_vars>>

SuppliedUnknown ==
    /\ Run(UnknownJson(state_file))
    /\ UNCHANGED <<history, db_vars, peer_vars>>

NextSupplied ==
    \/ \E key \in Keys, value \in InsertValues : SuppliedInsert(key, value)
    \/ \E key \in Keys : SuppliedQuery(key)
    \/ \E key \in Keys : SuppliedProve(key)
    \/ SuppliedUnknown

SpecSupplied == InitSupplied /\ [][NextSupplied]_vars

OneLeafState == insert(MerkleState_new, "alice", ValueHash("v1")).state

SuppliedStates ==
    { EmptyBytes,
      AsBytes(Base64Encode(SerializeState(OneLeafState))),
      SerializeState(OneLeafState),
      AsBytes(JsonToString(QueryJson("alice", Base64Encode(SerializeState(OneLeafState))))) }

DbSetState(bytes) ==
    /\ db_state' = bytes
    /\ call' = [op |-> "set_state"]
    /\ ret' = Ok(None)
    /\ UNCHANGED <<store, put_value, engine_vars, peer_vars>>

\* put_value records the value of a put whose write reached the Store.
DbPut(key, value, generate_proof, store_ok, prover_ok, verify_ok) ==
    LET done == Database_put(db_state, store, key, value, generate_proof, store_ok,
                             prover_ok, verify_ok)
    IN  /\ call' = [op |-> "put", key |-> key, value |-> value,
                    generate_proof |-> generate_proof, store_ok |-> store_ok,
                    state |-> db_state,
                    engine_invoked |-> done.engine_invoked]
        /\ ret' = done.ret
        /\ db_state' = done.state
        /\ store' = done.store
        /\ put_value' = IF store_ok THEN [put_value EXCEPT ![key] = value]
                        ELSE put_value
        /\ UNCHANGED <<engine_vars, peer_vars>>

DbGet(key, generate_proof, prover_ok, verify_ok) ==
    /\ call' = [op |-> "get", key |-> key, generate_proof |-> generate_proof,
                state |-> db_state]
    /\ LET done == Database_get_effect(db_state, store, key, generate_proof,
                                        prover_ok, verify_ok)
       IN  /\ ret' = done.ret
           /\ db_state' = done.state
           /\ store' = done.store
    /\ UNCHANGED <<put_value, engine_vars, peer_vars>>

\* The commands library callers pass to Database::execute_query.
DbCommands ==
    {CommandInsert(k, ValueHash(n)) : k \in Keys, n \in ValueNames}
    \cup {CommandQuery(k) : k \in Keys} \cup {CommandProve(k) : k \in Keys}

DbExecuteQuery(command, generate_proof, prover_ok, verify_ok) ==
    LET done == Database_execute_query(db_state, command, generate_proof,
                                       prover_ok, verify_ok)
    IN  /\ call' = [op |-> "execute_query", command |-> command,
                    generate_proof |-> generate_proof, state |-> db_state,
                    prover_ok |-> prover_ok, verify_ok |-> verify_ok]
        /\ ret' = done.ret
        /\ db_state' = done.state
        /\ UNCHANGED <<store, put_value, engine_vars, peer_vars>>

\* An out-of-band change of a stored blob, behind the Database's back.
StoreTamper(key, value) ==
    /\ ~IsNone(store[key])
    /\ store[key] # value
    /\ store' = [store EXCEPT ![key] = value]
    /\ call' = [op |-> "tamper", key |-> key]
    /\ ret' = None
    /\ UNCHANGED <<db_state, put_value, engine_vars, peer_vars>>

NextDb ==
    \/ \E bytes \in SuppliedStates : DbSetState(bytes)
    \/ \E key \in Keys, value \in RawValues, gp, so, po, vo \in BOOLEAN :
          DbPut(key, value, gp, so, po, vo)
    \/ \E key \in Keys, gp, po, vo \in BOOLEAN : DbGet(key, gp, po, vo)
    \/ \E command \in DbCommands, gp, po, vo \in BOOLEAN :
          DbExecuteQuery(command, gp, po, vo)
    \/ \E key \in Keys, value \in RawValues : StoreTamper(key, value)

SpecDb == Init /\ [][NextDb]_vars

\* ------------------------------------- Database::get on executor results
\* Database::get from the point where the executor has answered, applied to
\* every answer of the type Result<ProvenQueryResult, DatabaseError> and
\* every content of the Store.
ProvenQueryResult(data) == [data |-> data, new_state |-> EmptyBytes, sp1_proof |-> None]

ExecutorResults ==
    {Ok(ProvenQueryResult([value |-> ValueHash(n)])) : n \in ValueNames}
    \cup { Ok(ProvenQueryResult([value_hash |-> ValueHash("v1")])),
           Ok(ProvenQueryResult([error |-> "Key not found"])),
           Err(QueryExecutionFailed("Failed to execute query without proof")),
           Err(ProofGenerationFailed("prove")),
           Err(ProofVerificationFailed("verify")) }

InitGetResult ==
    /\ store \in [Keys -> RawValues \cup {None}]
    /\ state_file = None
    /\ input = None
    /\ output = None
    /\ history = << >>
    /\ db_state = EmptyBytes
    /\ call = None
    /\ ret = None
    /\ put_value = [k \in Keys |-> None]
    /\ PeerInit

GetResult(key, result) ==
    /\ call' = [op |-> "get", key |-> key, result |-> result]
    /\ ret' = get_result(result, store, key)
    /\ UNCHANGED <<db_state, store, put_value, engine_vars, peer_vars>>

NextGetResult == \E key \in Keys, result \in ExecutorResults : GetResult(key, result)

SpecGetResult == InitGetResult /\ [][NextGetResult]_vars

\* ------------------------------------------------- two Database instances
\* Two Databases, each owning its state buffer and its executor, over
\* disjoint Stores; their calls interleave in any order.  `alone` applies
\* each instance's calls to that instance's own copy only.

\* Mutant: the state buffer is one buffer shared by all instances.
InstanceState_Shared(insts, i) == insts[1].state

\* Database.state and Database.store of instance i.
InstanceState(insts, i) == insts[i].state

InstanceStore(insts, i) == insts[i].store

\* The value and the commands the two instances are driven with.
TwoValue == AsBytes(Str("v1"))

TwoCommands == {CommandInsert("alice", ValueHash("v1")), CommandQuery("alice")}

\* Instance i makes call c: `done` is its effect on the instance as it is,
\* `solo` the effect of the same call on the instance run alone.
TwoStep(i, c, done, solo) ==
    /\ instances' = [instances EXCEPT ![i] = [state |-> done.state, store |-> done.store]]
    /\ alone' = [alone EXCEPT ![i] = [state |-> solo.state, store |-> solo.store,
                                      ret |-> solo.ret]]
    /\ call' = c
    /\ ret' = done.ret
    /\ UNCHANGED <<db_state, store, put_value, backends, files, drivers, engine_vars>>

TwoSetState(i, bytes) ==
    TwoStep(i, [op |-> "set_state", instance |-> i],
            [ret |-> Ok(None), state |-> bytes, store |-> InstanceStore(instances, i)],
            [ret |-> Ok(None), state |-> bytes, store |-> alone[i].store])

\* get_state on one instance, set_state of those bytes on the other.
TwoTransfer(from, to) ==
    LET bytes == InstanceState(instances, from)
    IN  TwoStep(to, [op |-> "transfer", instance |-> to],
                [ret |-> Ok(None), state |-> bytes, store |-> InstanceStore(instances, to)],
                [ret |-> Ok(None), state |-> bytes, store |-> alone[to].store])

TwoPut(i, key, generate_proof, store_ok) ==
    TwoStep(i, [op |-> "put", instance |-> i, key |-> key],
            Database_put(InstanceState(instances, i), InstanceStore(instances, i),
                         key, TwoValue, generate_proof, store_ok, TRUE, TRUE),
            Database_put(alone[i].state, alone[i].store,
                         key, TwoValue, generate_proof, store_ok, TRUE, TRUE))

TwoGet(i, key, generate_proof) ==
    TwoStep(i, [op |-> "get", instance |-> i, key |-> key],
            Database_get_effect(InstanceState(instances, i), InstanceStore(instances, i),
                                key, generate_proof, TRUE, TRUE),
            Database_get_effect(alone[i].state, alone[i].store,
                                key, generate_proof, TRUE, TRUE))

TwoExecuteQuery(i, command, generate_proof) ==
    LET done == Database_execute_query(InstanceState(instances, i), command,
                                       generate_proof, TRUE, TRUE)
        solo == Database_execute_query(alone[i].state, command, generate_proof, TRUE, TRUE)
    IN  TwoStep(i, [op |-> "execute_query", instance |-> i, command |-> command,
                    generate_proof |-> generate_proof],
                [ret |-> done.ret, state |-> done.state,
                 store |-> InstanceStore(instances, i)],
                [ret |-> solo.ret, state |-> solo.state, store |-> alone[i].store])

NextTwo ==
    \E i \in Instances :
        \/ \E bytes \in SuppliedStates : TwoSetState(i, bytes)
        \/ \E j \in Instances \ {i} : TwoTransfer(j, i)
        \/ \E key \in Keys, gp, so \in BOOLEAN : TwoPut(i, key, gp, so)
        \/ \E key \in Keys, gp \in BOOLEAN : TwoGet(i, key, gp)
        \/ \E command \in TwoCommands, gp \in BOOLEAN : TwoExecuteQuery(i, command, gp)

SpecTwo == Init /\ [][NextTwo]_vars

\* ------------------------------------------------- the two Store backends
\* A FileStore and a RocksStore given the same calls, with no I/O failure.
\* Each operation gives [ret, blobs]: its StoreResult and the blobs it leaves.
StoreNotFound == Err("NotFound")

\* The blobs written: the raw values and the empty blob.
StoreValues == RawValues \cup {EmptyBytes}

FileStore_put(blobs, key, value) ==
    [ret |-> Ok(None), blobs |-> [blobs EXCEPT ![key] = value]]

FileStore_get(blobs, key) ==
    [ret |-> IF IsNone(blobs[key]) THEN StoreNotFound ELSE Ok(blobs[key]),
     blobs |-> blobs]

FileStore_delete(blobs, key) ==
    IF IsNone(blobs[key]) THEN [ret |-> StoreNotFound, blobs |-> blobs]
    ELSE [ret |-> Ok(None), blobs |-> [blobs EXCEPT ![key] = None]]

FileStore_exists(blobs, key) ==
    [ret |-> Ok([bool |-> ~IsNone(blobs[key])]), blobs |-> blobs]

RocksStore_put(blobs, key, value) ==
    [ret |-> Ok(None), blobs |-> [blobs EXCEPT ![key] = value]]

RocksStore_get(blobs, key) ==
    [ret |-> IF IsNone(blobs[key]) THEN StoreNotFound ELSE Ok(blobs[key]),
     blobs |-> blobs]

RocksStore_delete(blobs, key) ==
    [ret |-> Ok(None), blobs |-> [blobs EXCEPT ![key] = None]]

RocksStore_exists(blobs, key) ==
    [ret |-> Ok([bool |-> ~IsNone(blobs[key])]), blobs |-> blobs]

\* The same call made on both backends.
BothStores(c, on_file, on_rocks) ==
    /\ backends' = [file |-> on_file.blobs, rocks |-> on_rocks.blobs,
                    file_ret |-> on_file.ret, rocks_ret |-> on_rocks.ret]
    /\ call' = c
    /\ ret' = None
    /\ UNCHANGED <<db_state, store, put_value, instances, alone, files, drivers,
                   engine_vars>>

StorePut(key, value) ==
    BothStores([op |-> "store_put", key |-> key, value |-> value],
               FileStore_put(backends.file, key, value),
               RocksStore_put(backends.rocks, key, value))

StoreGet(key) ==
    BothStores([op |-> "store_get", key |-> key],
               FileStore_get(backends.file, key), RocksStore_get(backends.rocks, key))

StoreDelete(key) ==
    BothStores([op |-> "store_delete", key |-> key],
               FileStore_delete(backends.file, key), RocksStore_delete(backends.rocks, key))

StoreExists(key) ==
    BothStores([op |-> "store_exists", key |-> key],
               FileStore_exists(backends.file, key), RocksStore_exists(backends.rocks, key))

NextStores ==
    \E key \in Keys :
        \/ \E value \in StoreValues : StorePut(key, value)
        \/ StoreGet(key)
        \/ StoreDelete(key)
        \/ StoreExists(key)

SpecStores == Init /\ [][NextStores]_vars

\* ------------------------------------------------- FileStore on its directory
\* The directory below base_path: fs[path] is None (nothing there), Dir, or
\* File(bytes). base_path itself, the empty path, is a directory since new().
Dir == [dir |-> TRUE]

File(bytes) == [file |-> bytes]

StoreIo == Err("Io")

Parent(path) == SubSeq(path, 1, Len(path) - 1)

IsDir(fs, path) == path = << >> \/ fs[path] = Dir

IsFile(fs, path) == path # << >> /\ ~IsNone(fs[path]) /\ fs[path] # Dir

\* Some directory on the way to path is a regular file (ENOTDIR).
UnderFile(fs, path) ==
    \E n \in 1..(Len(path) - 1) : IsFile(fs, SubSeq(path, 1, n))

\* fs::create_dir_all: Ok on a directory, an error on a regular file,
\* otherwise the parents are made first and then the directory.
RECURSIVE create_dir_all(_, _)
create_dir_all(fs, path) ==
    IF IsDir(fs, path) THEN [ok |-> TRUE, fs |-> fs]
    ELSE IF IsFile(fs, path) THEN [ok |-> FALSE, fs |-> fs]
    ELSE LET up == create_dir_all(fs, Parent(path))
         IN  IF up.ok THEN [ok |-> TRUE, fs |-> [up.fs EXCEPT ![path] = Dir]]
             ELSE up

ensure_parent_exists(fs, path) == create_dir_all(fs, Parent(path))

FileStore_put_path(fs, key, value) ==
    LET path == key_to_path(key)
        made == ensure_parent_exists(fs, path)
    IN  IF ~made.ok THEN [ret |-> StoreIo, fs |-> fs]
        ELSE IF IsDir(made.fs, path) THEN [ret |-> StoreIo, fs |-> made.fs]
        ELSE [ret |-> Ok(None), fs |-> [made.fs EXCEPT ![path] = File(value)]]

FileStore_get_path(fs, key) ==
    LET path == key_to_path(key)
    IN  [ret |-> IF UnderFile(fs, path) THEN StoreIo
                 ELSE IF IsNone(fs[path]) THEN StoreNotFound
                 ELSE IF IsDir(fs, path) THEN StoreIo
                 ELSE Ok(fs[path].file),
         fs  |-> fs]

FileStore_delete_path(fs, key) ==
    LET path == key_to_path(key)
    IN  IF UnderFile(fs, path) THEN [ret |-> StoreIo, fs |-> fs]
        ELSE IF IsNone(fs[path]) THEN [ret |-> StoreNotFound, fs |-> fs]
        ELSE IF IsDir(fs, path) THEN [ret |-> StoreIo, fs |-> fs]
        ELSE [ret |-> Ok(None), fs |-> [fs EXCEPT ![path] = None]]

FileStore_exists_path(fs, key) ==
    LET path == key_to_path(key)
    IN  [ret |-> Ok([bool |-> ~UnderFile(fs, path) /\ ~IsNone(fs[path])]), fs |-> fs]

\* One call on the FileStore; `expected` follows the calls that returned Ok:
\* the bytes of the key's last put, None after its delete.
FileCall(c, done, expected) ==
    /\ files' = [fs |-> done.fs, expected |-> expected]
    /\ call' = c
    /\ ret' = done.ret
    /\ UNCHANGED <<db_state, store, put_value, instances, alone, backends, drivers,
                   engine_vars>>

FilePut(key, value) ==
    LET done == FileStore_put_path(files.fs, key, value)
    IN  FileCall([op |-> "file_put", key |-> key, value |-> value], done,
                 IF IsOk(done.ret) THEN [files.expected EXCEPT ![key] = value]
                 ELSE files.expected)

FileGet(key) ==
    FileCall([op |-> "file_get", key |-> key],
             FileStore_get_path(files.fs, key), files.expected)

FileDelete(key) ==
    LET done == FileStore_delete_path(files.fs, key)
    IN  FileCall([op |-> "file_delete", key |-> key,
                  present |-> ~IsNone(files.expected[key])], done,
                 IF IsOk(done.ret) THEN [files.expected EXCEPT ![key] = None]
                 ELSE files.expected)

FileExists(key) ==
    FileCall([op |-> "file_exists", key |-> key],
             FileStore_exists_path(files.fs, key), files.expected)

NextFile ==
    \E key \in FileKeys :
        \/ \E value \in StoreValues : FilePut(key, value)
        \/ FileGet(key)
        \/ FileDelete(key)
        \/ FileExists(key)

SpecFile == Init /\ [][NextFile]_vars

\* ------------------------------------------------------ the drivers at work
\* The invocations started in one behaviour are at most MaxRuns.
MaxRuns == 2

\* What an invocation of the merkle driver is asked to do.
DriverCommands ==
    {[tag |-> "insert", key |-> k, value |-> Str("v1")] : k \in Keys}
    \cup {[tag |-> t, key |-> k] : t \in {"query", "prove"}, k \in Keys}

\* The command JSON the driver builds around the state text it has read.
DriverJson(c, state) ==
    CASE c.tag = "insert" -> InsertJson(c.key, c.value, state)
      [] c.tag = "query" -> QueryJson(c.key, state)
      [] c.tag = "prove" -> ProveJson(c.key, state)

\* The state text after one transition applied to the text `state`: what the
\* run emits, and `state` itself when the run does not complete.
Threaded(c, state) ==
    LET run == Execute(DriverJson(c, state))
    IN  IF IsPanic(run) THEN state ELSE OutputJson(run).state

CanGrow(text) ==
    IF text \in CorruptTexts THEN TRUE ELSE Len(Decoded(text).leaves) < MaxLeaves

\* A driver that has ended its invocation of c with the outcome `last`.
DriverEnd(d, c, last) ==
    [drivers EXCEPT !.procs[d] = [pc |-> "idle", tag |-> c.tag, key |-> c.key,
                                  last |-> last],
                    !.threaded = Threaded(c, @)]

\* The driver reads the state file and builds the command JSON.
DriverLoad(d, c, prove_flag) ==
    /\ drivers.procs[d].pc = "idle"
    /\ drivers.runs < MaxRuns
    /\ c.tag = "insert" => CanGrow(state_file) /\ CanGrow(drivers.threaded)
    /\ drivers' = [drivers EXCEPT
                      !.procs[d] = [pc |-> "loaded", c |-> c, prove |-> prove_flag,
                                    command |-> DriverJson(c, state_file)],
                      !.runs = @ + 1,
                      !.overlap = @ \/ \E o \in Drivers \ {d} : drivers.procs[o].pc # "idle"]
    /\ UNCHANGED <<engine_vars, db_vars, instances, alone, backends, files>>

\* Mutant: a run that fails removes the state file.
DriverExecute_RemoveOnFailure(d) ==
    /\ drivers.procs[d].pc = "loaded"
    /\ LET p   == drivers.procs[d]
           run == Execute(p.command)
       IN  IF IsPanic(run)
           THEN /\ drivers' = DriverEnd(d, p.c, "failed")
                /\ state_file' = None
           ELSE /\ drivers' = [drivers EXCEPT !.procs[d] =
                                  [pc |-> "executed", c |-> p.c, prove |-> p.prove,
                                   run |-> run]]
                /\ UNCHANGED state_file
    /\ UNCHANGED <<input, output, history, db_vars, instances, alone, backends, files>>

\* client.execute(..).run(): a run that fails is logged and the driver ends.
DriverExecute(d) ==
    /\ drivers.procs[d].pc = "loaded"
    /\ LET p   == drivers.procs[d]
           run == Execute(p.command)
       IN  drivers' = IF IsPanic(run) THEN DriverEnd(d, p.c, "failed")
                      ELSE [drivers EXCEPT !.procs[d] =
                               [pc |-> "executed", c |-> p.c, prove |-> p.prove,
                                run |-> run]]
    /\ UNCHANGED <<engine_vars, db_vars, instances, alone, backends, files>>

\* The driver writes the state of the output to the state file; then, with
\* --prove, it proves and verifies, and panics if that fails.
DriverWrite(d, prover_ok) ==
    /\ drivers.procs[d].pc = "executed"
    /\ LET p == drivers.procs[d]
       IN  /\ state_file' = OutputJson(p.run).state
           /\ drivers' = DriverEnd(d, p.c, IF p.prove /\ ~prover_ok THEN "panicked"
                                           ELSE "written")
    /\ UNCHANGED <<input, output, history, db_vars, instances, alone, backends, files>>

\* One invocation of the library CLI (insert and query subcommands): the
\* state file is read, the Database runs the command, and the file is written
\* when the call returned Ok.
CliInvoke(command, generate_proof, prover_ok, verify_ok) ==
    LET db_state0 == drivers.cli_file.lenprefixed
        done == Database_execute_query(db_state0, command, generate_proof,
                                       prover_ok, verify_ok)
    IN  /\ drivers.runs < MaxRuns
        /\ drivers' = [drivers EXCEPT
                          !.cli_file = IF IsOk(done.ret) THEN BincodeVec(done.state) ELSE @,
                          !.cli_ret = done.ret,
                          !.runs = @ + 1]
        /\ UNCHANGED <<engine_vars, db_vars, instances, alone, backends, files>>

\* The state files the drivers find: none, or one that does not decode; and
\* the buffers the CLI's file holds.
DriverFiles == {None, Str("not base64!")}

CliBuffers ==
    {EmptyBytes,
     AsBytes(JsonToString(QueryJson("alice", Base64Encode(SerializeState(OneLeafState)))))}

\* The commands of the CLI's insert and query subcommands.
CliCommands == {CommandInsert("alice", ValueHash("v1")), CommandQuery("alice")}

InitDrivers ==
    /\ state_file \in DriverFiles
    /\ input = None
    /\ output = None
    /\ history = << >>
    /\ db_state = EmptyBytes
    /\ store = [k \in Keys |-> None]
    /\ call = None
    /\ ret = None
    /\ put_value = [k \in Keys |-> None]
    /\ StoresInit
    /\ \E bytes \in CliBuffers : drivers = DriversInit(state_file, bytes)

NextDrivers ==
    \/ \E d \in Drivers, c \in DriverCommands, prove_flag \in BOOLEAN :
           DriverLoad(d, c, prove_flag)
    \/ \E d \in Drivers : DriverExecute(d)
    \/ \E d \in Drivers, prover_ok \in BOOLEAN : DriverWrite(d, prover_ok)
    \/ \E command \in CliCommands, generate_proof, prover_ok, verify_ok \in BOOLEAN :
           CliInvoke(command, generate_proof, prover_ok, verify_ok)

SpecDrivers == InitDrivers /\ [][NextDrivers]_vars

\* ================================================================ claims
\* Observers shared by the claims below.
IsCmd(c) == ~IsNone(input) /\ input.command = c

Completed == ~IsNone(output) /\ ~IsPanic(output)

InputKey == input.params.key

\* The keys inserted so far, and the position in history of a key's last insert.
InsertedKeys == {history[i][1] : i \in 1..Len(history)}

LastInsert(k) ==
    CHOOSE i \in 1..Len(history) :
        /\ history[i][1] = k
        /\ \A j \in (i + 1)..Len(history) : history[j][1] # k

IsCall(op) == ~IsNone(call) /\ call.op = op

\* C1 (claim): a get(key) that follows put(key, value), with no later put of
\* the key and the blob in the Store still the one put wrote, returns
\* Ok(value).
C1_PutGetRoundTrip ==
    (/\ IsCall("get")
     /\ ~IsNone(put_value[call.key])
     /\ store[call.key] = put_value[call.key]) =>
        ret = Ok(put_value[call.key])

\* C2 (claim): the value hash that Query{key} returns equals the value hash h
\* carried by the latest Insert{key, h}: the leaf is the carried hash itself.
C2_QueryReturnsCarriedHash ==
    (/\ IsCmd("query") /\ InputKey \in InsertedKeys
     /\ "hex" \in DOMAIN history[LastInsert(InputKey)][2]) =>
        /\ Completed
        /\ "value_hash" \in DOMAIN output.result
        /\ output.result.value_hash = history[LastInsert(InputKey)][2]

\* C3 (claim): a get(key) whose blob was changed out-of-band after the put
\* fails with the data-integrity (hash mismatch) error, and no get returns
\* bytes other than those put.
C3_TamperDetected ==
    /\ (/\ IsCall("get")
         /\ ~IsNone(put_value[call.key])
         /\ store[call.key] # put_value[call.key]) =>
            ret = Err(StoreErr("Storage: Value hash mismatch - data may be corrupted"))
    /\ (IsCall("get") /\ IsOk(ret)) => ret.ok = put_value[call.key]

\* Folding a leaf with its sibling hashes bottom-up in a tree of `count`
\* leaves: an odd index takes its sibling on the left, an even index with a
\* right neighbour takes it on the right, a lone last node goes up unchanged.
RECURSIVE FoldProof(_, _, _, _)
FoldProof(h, index, count, sibs) ==
    IF count <= 1 THEN (IF sibs = << >> THEN h ELSE None)
    ELSE IF index % 2 = 1 \/ index + 1 < count
    THEN IF sibs = << >> THEN None
         ELSE FoldProof(IF index % 2 = 1 THEN ConcatAndHash(Head(sibs), h)
                                         ELSE ConcatAndHash(h, Head(sibs)),
                        index \div 2, (count + 1) \div 2, Tail(sibs))
    ELSE FoldProof(h, index \div 2, (count + 1) \div 2, sibs)

\* The root computed from the whole leaf sequence by splitting it at the
\* largest power of two below its length.
RECURSIVE SplitRoot(_)
SplitRoot(ls) ==
    IF Len(ls) = 1 THEN ls[1]
    ELSE LET k == CHOOSE p \in {1, 2, 4, 8, 16} : p < Len(ls) /\ 2 * p >= Len(ls)
         IN  ConcatAndHash(SplitRoot(SubSeq(ls, 1, k)),
                           SplitRoot(SubSeq(ls, k + 1, Len(ls))))

ProofHashesOf(result) ==
    LET js == JsonFromStr(Base64Decode(result.proof).utf8)
    IN  [i \in 1..Len(js) |-> js[i].hex]

\* C4: every Prove{key} of a present key returns root, index, leaf and sibling
\* hashes such that folding the leaf with the siblings gives the root computed
\* independently from the leaf sequence, which is the root reported.
C4_ProofValidity ==
    (IsCmd("prove") /\ InputKey \in DOMAIN key_indices) =>
        /\ Completed
        /\ {"root", "proof", "indices", "leaf"} \subseteq DOMAIN output.result
        /\ LET r == output.result
           IN  /\ r.root.hex = SplitRoot(leaves)
               /\ FoldProof(r.leaf.hex, r.indices[1], Len(leaves), ProofHashesOf(r))
                     = SplitRoot(leaves)

\* A proof in a 3-leaf tree for the lone third leaf: promoted once, then one sibling.
C4_Witness ==
    /\ IsCmd("prove") /\ Completed
    /\ Len(leaves) = 3
    /\ "indices" \in DOMAIN output.result
    /\ output.result.indices = <<2>>
    /\ Len(ProofHashesOf(output.result)) = 1

\* C5: the state a transition emits is the canonical encoding of its content:
\* the key-to-index entries are written in strictly ascending key order and
\* re-encoding the decoded state gives the same text, so the bytes depend on
\* the map's content only, not on the order the keys were inserted in.
C5_CanonicalState ==
    Completed =>
        LET entries == JsonFromStr(Base64Decode(output.state).utf8).key_indices
        IN  /\ \A i \in 1..(Len(entries) - 1) :
                   KeyRank(entries[i][1]) < KeyRank(entries[i + 1][1])
            /\ output.state = Base64Encode(SerializeState(Decoded(output.state)))
            /\ Execute(input) = [commit |-> AsBytes(JsonToString(output))]

\* bob was inserted before alice, and both are in the emitted state.
C5_Witness ==
    /\ Completed
    /\ Len(history) >= 2
    /\ history[1][1] = "bob" /\ history[2][1] = "alice"
    /\ DOMAIN Decoded(output.state).key_indices = {"alice", "bob"}

\* C6 (claim): Query{key} of a key never inserted completes and returns a
\* structured result with found = false, and emits a state.
C6_NotFoundIsFoundFalse ==
    (IsCmd("query") /\ InputKey \notin InsertedKeys) =>
        /\ Completed
        /\ "state" \in DOMAIN output
        /\ "found" \in DOMAIN output.result
        /\ output.result.found = FALSE

C8_IndexInvariant ==
    /\ [](\A k \in DOMAIN key_indices : key_indices[k] < Len(leaves))
    /\ [][Len(leaves') >= Len(leaves)]_vars

\* A Prove on a full tree in which every key is mapped.
C8_Witness ==
    /\ Len(leaves) = MaxLeaves
    /\ DOMAIN key_indices = Keys
    /\ IsCmd("prove")

\* C9: a leaf, once appended at an index, is the leaf at that index in every
\* later state.
C9_AppendOnly ==
    [][/\ Len(leaves') >= Len(leaves)
       /\ \A i \in 1..Len(leaves) : leaves'[i] = leaves[i]]_vars

\* An insert that completed on top of at least two earlier leaves.
C9_Witness ==
    /\ Len(leaves) >= 3
    /\ IsCmd("insert") /\ Completed

\* C10: a Query or Prove that completes emits a state that decodes to the
\* leaves and the key-to-index map of its input state.
C10_ReadOnlyEmitsState ==
    ((IsCmd("query") \/ IsCmd("prove")) /\ Completed) =>
        /\ "state" \in DOMAIN output
        /\ Decoded(output.state) = Decoded(input.state)

\* A Query that did not find its key on a state of two leaves, with a state emitted.
C10_Witness ==
    /\ IsCmd("query") /\ Completed
    /\ "error" \in DOMAIN output.result
    /\ Len(Decoded(output.state).leaves) >= 2

\* C12: a Prove{key} whose key is not in the index, the empty index included,
\* completes with the outcome "Key not found", reports no root and no proof,
\* and emits the index it was given.
C12_ProveAbsentKey ==
    (IsCmd("prove") /\ InputKey \notin DOMAIN Decoded(input.state).key_indices) =>
        /\ Completed
        /\ output.result = [error |-> "Key not found"]
        /\ {"root", "proof", "leaf", "indices"} \cap DOMAIN output.result = {}
        /\ Decoded(output.state) = Decoded(input.state)

\* A Prove on the state no transition has touched yet.
C12_Witness ==
    /\ IsCmd("prove") /\ Completed
    /\ IsNone(input.state)
    /\ "error" \in DOMAIN output.result

\* C13: a Prove on a state of exactly one leaf returns an empty sibling path
\* and a root equal to the leaf hash it reports.
C13_SingleLeaf ==
    (/\ IsCmd("prove")
     /\ Len(Decoded(input.state).leaves) = 1
     /\ InputKey \in DOMAIN Decoded(input.state).key_indices) =>
        /\ Completed
        /\ {"root", "proof", "leaf"} \subseteq DOMAIN output.result
        /\ ProofHashesOf(output.result) = << >>
        /\ output.result.root = output.result.leaf
        /\ output.result.leaf = HexEncode(Decoded(input.state).leaves[1])

\* A Prove that returned a root from a state of one leaf.
C13_Witness ==
    /\ IsCmd("prove") /\ Completed
    /\ Len(Decoded(input.state).leaves) = 1
    /\ "root" \in DOMAIN output.result

\* C14: from the empty state the n-th Insert (counting from 0) maps its key to
\* leaf index n; and the root a Prove reports is the root Prove reports for
\* every other key of the same state, and is the root recomputed from that
\* other key's leaf and sibling path.
C14_IndicesAndSharedRoot ==
    /\ (IsCmd("insert") /\ Completed /\ Len(history) > 0) =>
           Decoded(output.state).key_indices[InputKey] = Len(history) - 1
    /\ (IsCmd("prove") /\ Completed /\ "root" \in DOMAIN output.result) =>
           \A other \in DOMAIN key_indices :
               LET r == prove(Decoded(input.state), other).result
               IN  /\ IsOk(r)
                   /\ r.ok.root = output.result.root
                   /\ FoldProof(r.ok.leaf.hex, r.ok.indices[1], Len(leaves),
                                ProofHashesOf(r.ok)) = output.result.root.hex

\* alice then bob inserted; Prove{bob} reports a root, and alice's path has
\* one sibling.
C14_Witness ==
    /\ IsCmd("prove") /\ Completed /\ "root" \in DOMAIN output.result
    /\ InputKey = "bob"
    /\ Len(history) = 2 /\ history[1][1] = "alice" /\ history[2][1] = "bob"
    /\ Len(ProofHashesOf(prove(Decoded(input.state), "alice").result.ok)) = 1

\* C15 (claim): a command whose tag is not insert, query or prove aborts the
\* run; it does not complete with a result and a state.
C15_UnknownIsFatal ==
    IsCmd("delete") => IsPanic(output)

\* C15 (amended): a command whose tag is not insert, query or prove completes
\* like any transition: the result is {"error": "Unknown command"} and the
\* state emitted is the index the run was given.
C15_UnknownCompletes ==
    IsCmd("delete") =>
        /\ Completed
        /\ output.result = [error |-> "Unknown command"]
        /\ Decoded(output.state) = Decoded(input.state)

\* An unknown command run on an index of two leaves.
C15_Witness ==
    /\ IsCmd("delete") /\ Completed
    /\ Len(Decoded(output.state).leaves) = 2

\* C16: a run whose state string does not decode (not base64, or not the JSON
\* of a MerkleState) aborts at the decoding step, whatever the command, and
\* commits no output.
C16_StateCorrupt ==
    (~IsNone(input) /\ input.state \in CorruptTexts) =>
        /\ IsPanic(output)
        /\ output.panic \in {"Failed to decode state", "Failed to deserialize state"}
        /\ IsPanic(Execute(input))

\* The unknown command, which would otherwise complete, run on base64 of
\* bytes that are not JSON.
C16_Witness ==
    /\ IsCmd("delete")
    /\ input.state = Base64Encode(AsBytes(Str("garbage")))
    /\ IsPanic(output)

\* C11 (claim): a transition on the empty state is not an error: the first
\* Insert a Database created with no state runs, with no proof asked,
\* returns Ok and replaces the empty state buffer.
C11_Bootstrap ==
    (/\ IsCall("execute_query")
     /\ call.command.tag = "Insert"
     /\ ~call.generate_proof
     /\ call.state = EmptyBytes) =>
        /\ IsOk(ret)
        /\ db_state # EmptyBytes

\* C17: a put whose Store write fails returns the Store's error without
\* calling the executor and leaves the state buffer as it was; and whenever
\* put calls the executor the Store already holds the value.
C17_PutOrdering ==
    /\ (IsCall("put") /\ ~call.store_ok) =>
           /\ ret = Err(StoreErr("Io"))
           /\ ~call.engine_invoked
           /\ db_state = call.state
    /\ (IsCall("put") /\ call.engine_invoked) =>
           /\ call.store_ok
           /\ store[call.key] = call.value

\* A put of a new value over an existing blob whose write failed.
C17_Witness ==
    /\ IsCall("put") /\ ~call.store_ok
    /\ ~IsNone(store[call.key])
    /\ store[call.key] # call.value

\* Store, the variant of a Store error; the other variants are the index's.
IndexVariants ==
    {QueryExecutionFailed("").variant, ProofGenerationFailed("").variant,
     ProofVerificationFailed("").variant}

\* C18: a put whose Store write succeeded and whose index transition did not
\* return Ok leaves the state buffer as it was and the new blob in the Store;
\* put returns the executor's error (or unwinds with the executor's panic).
C18_NoRollback ==
    (IsCall("put") /\ call.store_ok /\ ~IsOk(ret)) =>
        /\ call.engine_invoked
        /\ db_state = call.state
        /\ store[call.key] = call.value
        /\ \/ IsErr(ret) /\ ret.err.variant \in IndexVariants
           \/ IsPanic(ret)

\* A put that returned an index error and left its blob in a Store that also
\* holds a different blob.
C18_Witness ==
    /\ IsCall("put") /\ call.store_ok /\ IsErr(ret)
    /\ store[call.key] = call.value
    /\ \E k \in Keys : ~IsNone(store[k]) /\ store[k] # call.value

\* The errors that tell a caller the key has no entry in the index.
NotFoundErrors == {StoreErr("NotFound"), QueryExecutionFailed("Query execution failed")}

\* C19 (claim): a get of a key that is not in the index (here: the index is
\* empty) fails with a not-found error, which is not the hash-mismatch
\* error, whether or not the Store holds a blob under the key.
C19_GetUncommitted ==
    (IsCall("get") /\ call.state = EmptyBytes) =>
        /\ IsErr(ret)
        /\ ret.err \in NotFoundErrors
        /\ ret.err # HashMismatch

C21_CommitOnSuccess ==
    (IsCall("execute_query") \/ IsCall("put")) =>
        /\ ~IsOk(ret) => db_state = call.state
        /\ IsErr(ret) => ret.err.variant \in IndexVariants \cup {StoreErr("").variant}

\* An execute_query with a proof asked that failed in proof generation on a
\* state buffer that is not empty.
C21_Witness ==
    /\ IsCall("execute_query") /\ call.generate_proof
    /\ ret = Err(ProofGenerationFailed("prove"))
    /\ call.state # EmptyBytes
    /\ db_state = call.state

\* The index a state buffer holds: the MerkleState its bytes (or the base64
\* text in them) deserialize to, else the empty index.
IndexOf(bytes) ==
    IF CanDeserializeState(bytes) THEN DeserializeState(bytes)
    ELSE IF IsUtf8(bytes) /\ IsBase64(bytes.utf8)
            /\ CanDeserializeState(Base64Decode(bytes.utf8))
    THEN DeserializeState(Base64Decode(bytes.utf8))
    ELSE MerkleState_new

C25_ProofAttestation ==
    (/\ IsCall("execute_query")
     /\ call.state = EmptyBytes
     /\ call.generate_proof /\ call.prover_ok) =>
        IF call.verify_ok
        THEN IsOk(ret) /\ ~IsNone(ret.ok.sp1_proof)
        ELSE ret = Err(ProofVerificationFailed("verify"))

\* C26 (claim): the result of an Insert reports inserted = true and the leaf
\* hash it appended.
C26_InsertOutcome ==
    (IsCmd("insert") /\ Completed) =>
        /\ {"inserted", "leaf"} \subseteq DOMAIN output.result
        /\ output.result.inserted = TRUE
        /\ output.result.leaf =
              HexEncode(Decoded(output.state).leaves[Len(Decoded(output.state).leaves)])

\* C28: every Insert on a state reached from the empty one completes with the
\* result {"status": "inserted"} and emits a state with one leaf more,
\* whether or not the key was already in the index.
C28_InsertNeverFails ==
    IsCmd("insert") =>
        /\ Completed
        /\ output.result = [status |-> "inserted"]
        /\ Len(Decoded(output.state).leaves) = Len(Decoded(input.state).leaves) + 1
        /\ InputKey \in DOMAIN Decoded(output.state).key_indices

\* An Insert of a key the index already held.
C28_Witness ==
    /\ IsCmd("insert") /\ Completed
    /\ InputKey \in DOMAIN Decoded(input.state).key_indices

\* C29: a step that is a Database::get leaves the state buffer and the Store
\* as they were.
C29_GetReadOnly ==
    [][(~IsNone(call') /\ call'.op = "get") =>
           (db_state' = db_state /\ store' = store)]_vars

\* A get that failed, with a proof asked, on a state buffer that is not empty
\* and a Store holding the key.
C29_Witness ==
    /\ IsCall("get") /\ call.generate_proof
    /\ IsErr(ret)
    /\ db_state # EmptyBytes
    /\ ~IsNone(store[call.key])

\* C30 (claim): on every state string that decodes, a Query or Prove
\* completes; it never aborts.
C30_SuppliedStateRobust ==
    ((IsCmd("query") \/ IsCmd("prove")) /\ input.state \in DecodableTexts) =>
        Completed

\* C22: in every interleaving of the calls of two Databases over disjoint
\* Stores, each instance has the state buffer and the Store contents its own
\* calls give when run alone in the same order, and each call returns what it
\* returns in that run.
C22_InstanceIndependence ==
    \A i \in Instances :
        /\ instances[i].state = alone[i].state
        /\ instances[i].store = alone[i].store
        /\ (~IsNone(call) /\ call.instance = i) => ret = alone[i].ret

\* Instance 2 has just made a put that wrote its Store, after instance 1 made
\* calls of its own; the two hold different buffers and different blobs.
C22_Witness ==
    /\ IsCall("put") /\ call.instance = 2
    /\ ~IsNone(alone[1].ret)
    /\ instances[1].state # instances[2].state
    /\ ~IsNone(instances[2].store[call.key])
    /\ instances[1].store # instances[2].store

\* C24 (claim): a Query on an instance that holds the same state buffer as
\* the other instance returns Ok, with the found flag and value hash the
\* same Query returns on the other instance.
C24_StateTransfer ==
    (/\ IsCall("execute_query")
     /\ call.command.tag = "Query"
     /\ ~call.generate_proof
     /\ instances[1].state = instances[2].state) =>
        /\ IsOk(ret)
        /\ {"found", "value"} \subseteq DOMAIN ret.ok.data
        /\ \A j \in Instances :
              ret = Database_execute_query(instances[j].state, call.command,
                                           FALSE, TRUE, TRUE).ret

\* C27 (claim): given the same calls, FileStore and RocksStore return the
\* same outcome for every call, and hold the same blobs.
C27_BackendsInterchangeable ==
    /\ backends.file_ret = backends.rocks_ret
    /\ backends.file = backends.rocks

\* C31 (claim): the two buffers the host executor writes for an
\* execute_query are accepted by the guest's input reader, and what the guest
\* commits is parsed by parse_output without a panic, for every command and
\* every state buffer.
C31_ProtocolAgreement ==
    IsCall("execute_query") =>
        /\ ~IsPanic(GuestMain(<<BincodeVec(call.state), BincodeCommand(call.command)>>))
        /\ ~IsPanic(ret)

InsertCount(k) == Cardinality({i \in 1..Len(history) : history[i][1] = k})

\* C33: a Prove{key} of a key inserted more than once reports the index and
\* the leaf hash of the key's most recent insert, and a root and sibling path
\* computed over all the leaves appended so far, the superseded ones included.
C33_ProveLatestMapping ==
    (IsCmd("prove") /\ InsertCount(InputKey) >= 2) =>
        /\ Completed
        /\ {"root", "proof", "indices", "leaf"} \subseteq DOMAIN output.result
        /\ LET r    == output.result
               last == LastInsert(InputKey)
           IN  /\ r.indices = <<last - 1>>
               /\ r.indices = <<key_indices[InputKey]>>
               /\ r.leaf = HexEncode(Sha256(AsBytes(history[last][2])))
               /\ r.leaf = HexEncode(leaves[key_indices[InputKey] + 1])
               /\ Len(leaves) = Len(history)
               /\ r.root.hex = SplitRoot(leaves)
               /\ FoldProof(r.leaf.hex, last - 1, Len(history), ProofHashesOf(r))
                     = SplitRoot(leaves)

\* alice inserted with one value, bob inserted, alice inserted again with
\* another value, then proved: her first leaf is superseded and still in the
\* tree.
C33_Witness ==
    /\ IsCmd("prove") /\ Completed /\ InputKey = "alice"
    /\ Len(history) = 3
    /\ history[1][1] = "alice" /\ history[2][1] = "bob" /\ history[3][1] = "alice"
    /\ history[1][2] # history[3][2]
    /\ output.result.indices = <<2>>

\* The leaf sequences a and b hold the same hashes in a different order.
Reordered(a, b) ==
    /\ Len(a) = Len(b)
    /\ a # b
    /\ \E p \in Permutations(1..Len(a)) : b = [i \in 1..Len(a) |-> a[p[i]]]

\* C34: the root a Prove reports is the root every Prove reports on any state
\* with the same leaf sequence, whatever its key-to-index map and whatever
\* the key; and it differs from the root reported on any state whose leaves
\* are the same hashes in a different order.
C34_RootFromLeafSequence ==
    (IsCmd("prove") /\ Completed /\ "root" \in DOMAIN output.result) =>
        \A other \in SuppliedMerkleStates, k \in Keys :
            LET r == prove(other, k).result
            IN  IsOk(r) =>
                  /\ (other.leaves = Decoded(input.state).leaves)
                        => r.ok.root = output.result.root
                  /\ Reordered(Decoded(input.state).leaves, other.leaves)
                        => r.ok.root # output.result.root

\* A Prove that reported a root on two different leaves; another state holds
\* the same leaves under a different map, and a third the two leaves swapped.
C34_Witness ==
    /\ IsCmd("prove") /\ Completed /\ "root" \in DOMAIN output.result
    /\ Len(Decoded(input.state).leaves) = 2
    /\ \E a, b \in SuppliedMerkleStates, k \in Keys :
          /\ a.leaves = Decoded(input.state).leaves
          /\ a.key_indices # Decoded(input.state).key_indices
          /\ IsOk(prove(a, k).result)
          /\ Reordered(Decoded(input.state).leaves, b.leaves)
          /\ IsOk(prove(b, k).result)

\* C35 (claim): FileStore behaves as a map from keys to bytes: put returns
\* Ok; get(k) returns the bytes of the last put of k not followed by a
\* delete of k, and NotFound otherwise; delete of a present key returns Ok
\* and of an absent one NotFound; exists(k) is true exactly when get(k)
\* would succeed; for keys of which one is a path prefix of another too.
C35_FileStoreIsMap ==
    /\ IsCall("file_put") => ret = Ok(None)
    /\ IsCall("file_get") =>
           ret = IF IsNone(files.expected[call.key]) THEN StoreNotFound
                 ELSE Ok(files.expected[call.key])
    /\ IsCall("file_delete") =>
           ret = IF call.present THEN Ok(None) ELSE StoreNotFound
    /\ IsCall("file_exists") =>
           ret = Ok([bool |-> IsOk(FileStore_get_path(files.fs, call.key).ret)])

AllIdle == \A d \in Drivers : drivers.procs[d].pc = "idle"

\* C36: a driver writes its state file only at the end of an invocation whose
\* transition executed, and writes the state that run emitted; an invocation
\* whose execution fails ends without touching the file; the CLI's file
\* changes only in an invocation whose call returned Ok. And when no two
\* invocations overlapped, the file holds, once they are over, the state the
\* same commands give when applied in turn to one threaded state.
C36_DriverPersistence ==
    /\ [][/\ (state_file' # state_file) =>
                \E d \in Drivers :
                    /\ drivers.procs[d].pc = "executed"
                    /\ drivers'.procs[d].pc = "idle"
                    /\ ~IsPanic(drivers.procs[d].run)
                    /\ state_file' = OutputJson(drivers.procs[d].run).state
          /\ \A d \in Drivers :
                (/\ drivers.procs[d].pc = "loaded"
                 /\ drivers'.procs[d] # drivers.procs[d]
                 /\ IsPanic(Execute(drivers.procs[d].command))) =>
                    /\ drivers'.procs[d].pc = "idle"
                    /\ drivers'.procs[d].last = "failed"
                    /\ state_file' = state_file
          /\ (drivers'.cli_file # drivers.cli_file) => IsOk(drivers'.cli_ret)]_vars
    /\ []((~drivers.overlap /\ AllIdle) => state_file = drivers.threaded)

\* Two invocations, one after the other, each inserted a key; the proof of
\* one failed after its write; the file holds the two leaves.
C36_Witness ==
    /\ ~drivers.overlap /\ AllIdle
    /\ drivers.procs[1].last = "written" /\ drivers.procs[1].tag = "insert"
    /\ drivers.procs[2].last = "panicked" /\ drivers.procs[2].tag = "insert"
    /\ Len(leaves) = 2
    /\ state_file = drivers.threaded

\* C37 (claim): when two invocations of the merkle driver, each inserting a
\* different key, have both run on an empty state file and written it,
\* whether or not they overlapped, the file holds both keys and two leaves.
C37_NoLostUpdate ==
    (/\ drivers.runs = 2
     /\ \A d \in Drivers :
           /\ drivers.procs[d].pc = "idle"
           /\ drivers.procs[d].last \in {"written", "panicked"}
           /\ drivers.procs[d].tag = "insert"
     /\ drivers.procs[1].key # drivers.procs[2].key) =>
        /\ DOMAIN key_indices = {drivers.procs[1].key, drivers.procs[2].key}
        /\ Len(leaves) = 2

====
